---- MODULE Spec2Model ----
(***************************************************************************)
(* A model of godot::CowData<T> (include/godot_cpp/templates/cowdata.hpp): *)
(* a handle (_ptr) to a reference-counted block {refcount, size, payload}. *)
(*                                                                         *)
(* The machine state of the single-threaded model is threaded through the  *)
(* operators as a record S = [alive, ptr, heap, fault, nomem, calls]:      *)
(*   alive[h]  handle h has been constructed and not yet destroyed         *)
(*   ptr[h]    its _ptr: a block, or Null                                  *)
(*   heap[b]   block b: live (allocated), refc, size, data, bytes          *)
(*   fault     "none", or the undefined behaviour the program ran into;    *)
(*             a faulted program takes no further step                     *)
(*   nomem     the allocator returned null during the current operation    *)
(*   calls     the calls of alloc_static and realloc_static the current    *)
(*             operation made                                              *)
(* An operator that calls the allocator yields the set of its outcomes.    *)
(* trivialT tells whether T is trivially constructible, copyable and       *)
(* destructible. pc and loc are the threads' positions and locals in the   *)
(* multi-threaded model of copy and destroy, where _ref and _unref run one *)
(* atomic step at a time.                                                  *)
(***************************************************************************)
EXTENDS Integers, Sequences, FiniteSets, TLC

VARIABLES alive, ptr, heap, fault, trivialT, pc, loc

vars == <<alive, ptr, heap, fault, trivialT, pc, loc>>

\* Longest payload the model builds.
MaxLen == 3

\* sizeof(T). With 5 bytes an element, lengths 2 and 3 share the 16-byte
\* capacity bucket, and lengths 0, 1 and 2 lie in three different ones.
ElemSize == 5

\* Width in bits of the modelled USize (the arithmetic is modulo 2^WordBits).
WordBits == 16

\* static constexpr USize ALLOC_PAD = sizeof(USize) * 2
ALLOC_PAD == 16

\* nullptr
Null == 0

HandleSeq == <<"A", "B">>

Handles == {HandleSeq[i] : i \in 1 .. Len(HandleSeq)}

\* Addresses the allocator hands out: one more than there are handles, so a
\* clone can be allocated while the block it copies is still held.
Blocks == 1 .. (Cardinality(Handles) + 1)

\* Element values: 0 is T() and the zero-fill value.
Vals == {0, 1}

\* A destroyed element of a non-trivially-destructible T.
Dead == -1

OK == "OK"
ERR_INVALID_PARAMETER == "ERR_INVALID_PARAMETER"
ERR_OUT_OF_MEMORY == "ERR_OUT_OF_MEMORY"
\* What an operation that did not return leaves as its result.
NoReturn == "no_return"
\* The result of a void operation that returned.
Void == "void"

RECURSIVE Pow2(_)
Pow2(n) == IF n = 0 THEN 1 ELSE 2 * Pow2(n - 1)

USizeMod == Pow2(WordBits)

RECURSIVE BitOr(_, _)
BitOr(x, y) ==
    IF x = 0 THEN y
    ELSE IF y = 0 THEN x
    ELSE (IF x % 2 = 1 \/ y % 2 = 1 THEN 1 ELSE 0) + 2 * BitOr(x \div 2, y \div 2)

\* x |= x >> k
OrShr(x, k) == BitOr(x, x \div Pow2(k))

\* next_po2: the next power of 2 to an integer, 0 for 0.
next_po2(x) ==
    IF x = 0 THEN 0
    ELSE LET x0 == (x - 1) % USizeMod
             x1 == OrShr(x0, 1)
             x2 == OrShr(x1, 2)
             x3 == OrShr(x2, 4)
             x4 == OrShr(x3, 8)
             x5 == OrShr(x4, 16)
             x6 == IF WordBits > 32 THEN OrShr(x5, 32) ELSE x5
         IN (x6 + 1) % USizeMod

\* _get_alloc_size: next_po2(p_elements * sizeof(T)), unchecked.
_get_alloc_size(p_elements) == next_po2((p_elements * ElemSize) % USizeMod)

\* _get_alloc_size_checked, the branch compiled when IS_32_BIT is not defined:
\* the unchecked size, reported as a failure only when it comes out 0.
_get_alloc_size_checked(p_elements) ==
    IF p_elements = 0 THEN [ok |-> TRUE, out |-> 0]
    ELSE LET out == _get_alloc_size(p_elements)
         IN [ok |-> out # 0, out |-> out]

FreeBlock == [live |-> FALSE, refc |-> 0, size |-> 0, data |-> <<>>, bytes |-> 0]

Fault(S, f) == [S EXCEPT !.fault = f]

\* std::is_trivially_destructible / _copyable / _constructible of T.
is_trivially_destructible(S) == S.trivial
is_trivially_copyable(S) == S.trivial
is_trivially_constructible(S) == S.trivial

----------------------------------------------------------------------------
(* The collaborators: the raw allocator and the atomic counter.            *)

HasFree(S) == \E b \in Blocks : ~S.heap[b].live

FreshBlock(S) ==
    CHOOSE b \in Blocks : ~S.heap[b].live /\ \A c \in Blocks : c < b => S.heap[c].live

\* S with one more call of the allocator counted.
Called(S) == [S EXCEPT !.calls = @ + 1]

\* Memory::alloc_static(bytes): null, or a fresh block of raw memory.
alloc_static(S, bytes) ==
    LET C == Called(S)
    IN {[s |-> [C EXCEPT !.nomem = TRUE], p |-> Null]}
       \cup (IF HasFree(C)
             THEN LET b == FreshBlock(C)
                  IN {[s |-> [C EXCEPT !.heap[b] = [FreeBlock EXCEPT !.live = TRUE,
                                                                      !.bytes = bytes]],
                       p |-> b]}
             ELSE {})

\* Memory::realloc_static(p, bytes): null (the block is left as it is), the
\* block resized in place, or its content moved to a fresh block.
realloc_static(S, b, bytes) ==
    LET C == Called(S)
    IN {[s |-> [C EXCEPT !.nomem = TRUE], p |-> Null]}
       \cup {[s |-> [C EXCEPT !.heap[b].bytes = bytes], p |-> b]}
       \cup (IF HasFree(C)
             THEN LET n == FreshBlock(C)
                  IN {[s |-> [C EXCEPT !.heap[n] = [C.heap[b] EXCEPT !.bytes = bytes],
                                       !.heap[b] = FreeBlock],
                       p |-> n]}
             ELSE {})

\* Memory::free_static(p).
free_static(S, b) ==
    IF b \in Blocks /\ S.heap[b].live
    THEN [S EXCEPT !.heap[b] = FreeBlock]
    ELSE Fault(S, "bad_free")

\* SafeNumeric::decrement(): the counter after the decrement is the result.
decrement(S, b) == [S EXCEPT !.heap[b].refc = (@ - 1) % USizeMod]

\* SafeNumeric::conditional_increment(): increments unless the counter is 0;
\* the counter afterwards is the result.
conditional_increment(S, b) ==
    IF S.heap[b].refc = 0 THEN S ELSE [S EXCEPT !.heap[b].refc = (@ + 1) % USizeMod]

----------------------------------------------------------------------------
(* CowData<T>                                                              *)

\* size(): *_get_size(), or 0 for a null _ptr.
size(S, h) == IF S.ptr[h] = Null THEN 0 ELSE S.heap[S.ptr[h]].size

is_empty(S, h) == S.ptr[h] = Null

\* The payload as get(0) .. get(size() - 1) reads it.
Elems(S, h) ==
    IF S.ptr[h] = Null THEN <<>>
    ELSE LET blk == S.heap[S.ptr[h]]
         IN [i \in 1 .. blk.size |-> IF i <= Len(blk.data) THEN blk.data[i] ELSE Dead]

\* get_refcount: 0 for a null _ptr.
RefCount(S, h) == IF S.ptr[h] = Null THEN 0 ELSE S.heap[S.ptr[h]].refc

\* Some element in slots [from, to) of block b is a destroyed object.
HasDead(S, b, from, to) ==
    \E i \in (from + 1) .. to : i <= Len(S.heap[b].data) /\ S.heap[b].data[i] = Dead

\* data[i].~T() for i in [from, to): the slots of a non-trivial T become dead.
\* Destroying a destroyed object is undefined.
DestroyRange(S, b, from, to) ==
    IF HasDead(S, b, from, to) THEN Fault(S, "dead_object")
    ELSE [S EXCEPT !.heap[b].data =
            [i \in 1 .. Len(@) |-> IF i > from /\ i <= to THEN Dead ELSE @[i]]]

\* Outcomes [s, ret] of an operation that did not return: it faulted.
Stopped(S) == {[s |-> S, ret |-> NoReturn]}

\* The outcome of an operation that ends in S and returns ret, if it returns.
Returned(S, ret) == [s |-> S, ret |-> IF S.fault # "none" THEN NoReturn ELSE ret]

\* _unref: if (refc->decrement() > 0) return; // still in use
StillInUse_above_one(count) == count > 1

StillInUse(count) == count > 0

\* _ref: if (p_from._get_refcount()->conditional_increment() > 0) // could reference
CouldReference_always(count) == count >= 0

CouldReference(count) == count > 0

\* _unref without its clean-up: the counter is decremented and nothing freed.
_unref_no_free(S, h, p_data) ==
    IF p_data = Null \/ S.ptr[h] = Null THEN S ELSE decrement(S, S.ptr[h])

\* _unref(p_data): the counter is _get_refcount()'s, that of this handle's _ptr.
\* At 0 the elements of a non-trivially-destructible T are destroyed and the
\* block is freed.
_unref(S, h, p_data) ==
    IF p_data = Null THEN S
    ELSE LET b  == S.ptr[h]
         IN IF b = Null THEN Fault(S, "null_read")
            ELSE IF ~S.heap[b].live THEN Fault(S, "use_after_free")
            ELSE LET S1 == decrement(S, b)
                 IN IF StillInUse(S1.heap[b].refc) THEN S1
                    ELSE LET S2 == IF is_trivially_destructible(S1) THEN S1
                                   ELSE DestroyRange(S1, b, 0, S1.heap[b].size)
                         IN IF S2.fault # "none" THEN S2 ELSE free_static(S2, p_data)

\* The clone with the counter copied from the block it copies, not set to 1.
CloneInto_copied_count(S, p, b) ==
    [S EXCEPT !.heap[p].refc = S.heap[b].refc,
              !.heap[p].size = S.heap[b].size,
              !.heap[p].data = S.heap[b].data]

\* The clone _copy_on_write builds in the fresh block p: refcount 1, the size
\* and the elements of the block b it copies.
CloneInto(S, p, b) ==
    IF HasDead(S, b, 0, S.heap[b].size) THEN Fault(S, "dead_object")
    ELSE [S EXCEPT !.heap[p].refc = 1,
                   !.heap[p].size = S.heap[b].size,
                   !.heap[p].data = S.heap[b].data]

\* _copy_on_write(): outcomes [s, rc]. A shared block (refcount > 1) is cloned
\* into a fresh one, the old one unreferenced and the clone adopted. The
\* allocator's result is used unchecked: a null result is written through.
_copy_on_write(S, h) ==
    IF S.ptr[h] = Null THEN {[s |-> S, rc |-> 0]}
    ELSE LET b  == S.ptr[h]
             rc == S.heap[b].refc
         IN IF ~S.heap[b].live THEN {[s |-> Fault(S, "use_after_free"), rc |-> 0]}
            ELSE IF rc > 1
            THEN { IF o.p = Null
                   THEN [s |-> Fault(o.s, "null_write"), rc |-> rc]
                   ELSE LET S1 == CloneInto(o.s, o.p, b)
                            S2 == _unref(S1, h, S1.ptr[h])
                        IN IF S1.fault # "none" THEN [s |-> S1, rc |-> rc]
                           ELSE [s |-> [S2 EXCEPT !.ptr[h] = o.p], rc |-> 1]
                   : o \in alloc_static(S, (_get_alloc_size(S.heap[b].size) + ALLOC_PAD)
                                               % USizeMod) }
            ELSE {[s |-> S, rc |-> rc]}

\* _ptr[p_index] = p_elem on the block the handle holds. Assigning to or from
\* a destroyed object is undefined.
WriteElem(S, h, p_index, p_elem) ==
    IF p_elem = Dead \/ S.heap[S.ptr[h]].data[p_index + 1] = Dead
    THEN Fault(S, "dead_object")
    ELSE [S EXCEPT !.heap[S.ptr[h]].data[p_index + 1] = p_elem]

\* ERR_FAIL_INDEX / CRASH_BAD_INDEX: the index is outside [0, size).
BadIndex(p_index, p_size) == p_index < 0 \/ p_index >= p_size

\* set without its _copy_on_write(): the write goes to the block as it is held.
set_no_cow(S, h, p_index, p_elem) ==
    IF BadIndex(p_index, size(S, h)) THEN {[s |-> S, ret |-> Void]}
    ELSE {Returned(WriteElem(S, h, p_index, p_elem), Void)}

\* set with the index tested after the copy-on-write step.
set_late_check(S, h, p_index, p_elem) ==
    { IF c.s.fault # "none" THEN [s |-> c.s, ret |-> NoReturn]
      ELSE IF BadIndex(p_index, size(S, h)) THEN [s |-> c.s, ret |-> Void]
      ELSE Returned(WriteElem(c.s, h, p_index, p_elem), Void)
      : c \in _copy_on_write(S, h) }

\* set(p_index, p_elem): outcomes [s, ret].
set(S, h, p_index, p_elem) ==
    IF BadIndex(p_index, size(S, h)) THEN {[s |-> S, ret |-> Void]}
    ELSE { IF c.s.fault # "none" THEN [s |-> c.s, ret |-> NoReturn]
           ELSE Returned(WriteElem(c.s, h, p_index, p_elem), Void)
           : c \in _copy_on_write(S, h) }

\* get_m(p_index) = p_elem: a write through the reference get_m returns.
get_m(S, h, p_index, p_elem) ==
    IF BadIndex(p_index, size(S, h)) THEN Stopped(Fault(S, "bad_index"))
    ELSE { IF c.s.fault # "none" THEN [s |-> c.s, ret |-> NoReturn]
           ELSE Returned(WriteElem(c.s, h, p_index, p_elem), Void)
           : c \in _copy_on_write(S, h) }

\* ptrw(): outcomes [s, ret]; the pointer returned is the handle's _ptr.
ptrw(S, h) ==
    { [s |-> c.s, ret |-> IF c.s.fault # "none" THEN NoReturn ELSE Void]
      : c \in _copy_on_write(S, h) }

\* get(p_index), for an index in range.
get(S, h, p_index) == S.heap[S.ptr[h]].data[p_index + 1]

\* *_get_size() = n; the slots past the stored size are raw memory again.
SetSize(S, b, n) ==
    [S EXCEPT !.heap[b].size = n,
              !.heap[b].data = [i \in 1 .. n |-> IF i <= Len(@) THEN @[i] ELSE Dead]]

\* What the n slots a growing resize exposes hold: T() each for a
\* non-trivially-constructible T, zeroes for a trivial T under p_ensure_zero,
\* and otherwise whatever the memory held.
NewSlots(S, n, p_ensure_zero) ==
    IF ~is_trivially_constructible(S) THEN {[i \in 1 .. n |-> 0]}
    ELSE IF p_ensure_zero THEN {[i \in 1 .. n |-> 0]}
    ELSE [1 .. n -> Vals]

\* The growing resize writes the slots it exposes: memnew_placement for a
\* non-trivially-constructible T, memset under p_ensure_zero.
WritesNewSlots(S, p_ensure_zero) == ~is_trivially_constructible(S) \/ p_ensure_zero

\* n elements lie within the payload of block b; a write past it is undefined.
Fits(S, b, n) == n * ElemSize <= S.heap[b].bytes - ALLOC_PAD

\* The end of the growing branch without the store to the size.
resize_construct_no_size(S, h, p_size, p_ensure_zero) ==
    { [s |-> [S EXCEPT !.heap[S.ptr[h]].data = @ \o f], ret |-> OK]
      : f \in NewSlots(S, p_size - S.heap[S.ptr[h]].size, p_ensure_zero) }

\* resize, the end of the growing branch: the new slots are constructed and
\* the size is stored last.
resize_construct(S, h, p_size, p_ensure_zero) ==
    LET b == S.ptr[h]
        n == p_size - S.heap[b].size
    IN IF WritesNewSlots(S, p_ensure_zero) /\ ~Fits(S, b, p_size)
       THEN Stopped(Fault(S, "heap_overflow"))
       ELSE { [s |-> [S EXCEPT !.heap[b].data = @ \o f, !.heap[b].size = p_size],
               ret |-> OK]
              : f \in NewSlots(S, n, p_ensure_zero) }

\* resize, the first allocation (current_size == 0): ptr += 2 precedes the
\* null test, which a null result therefore passes; the header is then
\* written through it.
resize_alloc(S, h, alloc_size) ==
    { IF o.p = Null
      THEN Fault(o.s, "null_write")
      ELSE [o.s EXCEPT !.heap[o.p].size = 0, !.heap[o.p].refc = 1, !.ptr[h] = o.p]
      : o \in alloc_static(S, (alloc_size + ALLOC_PAD) % USizeMod) }

\* resize, the reallocation of either branch: outcomes [s, ok]. A null result
\* is tested before the pointer is adjusted; otherwise the counter is written
\* anew with rc and the block adopted.
resize_realloc(S, h, alloc_size, rc) ==
    { IF o.p = Null
      THEN [s |-> o.s, ok |-> FALSE]
      ELSE [s |-> [o.s EXCEPT !.heap[o.p].refc = rc, !.ptr[h] = o.p], ok |-> TRUE]
      : o \in realloc_static(S, S.ptr[h], (alloc_size + ALLOC_PAD) % USizeMod) }

\* The growing branch without its test of the two allocation sizes: it
\* reallocates on every change of length.
resize_grow_always(S, h, p_size, current_size, rc, alloc_size, current_alloc_size, p_ensure_zero) ==
    IF current_size = 0
    THEN UNION { IF S1.fault # "none" THEN Stopped(S1)
                 ELSE resize_construct(S1, h, p_size, p_ensure_zero)
                 : S1 \in resize_alloc(S, h, alloc_size) }
    ELSE UNION { IF ~r.ok THEN {[s |-> r.s, ret |-> ERR_OUT_OF_MEMORY]}
                 ELSE resize_construct(r.s, h, p_size, p_ensure_zero)
                 : r \in resize_realloc(S, h, alloc_size, rc) }

\* resize, p_size > current_size.
resize_grow(S, h, p_size, current_size, rc, alloc_size, current_alloc_size, p_ensure_zero) ==
    IF alloc_size # current_alloc_size
    THEN IF current_size = 0
         THEN UNION { IF S1.fault # "none" THEN Stopped(S1)
                      ELSE resize_construct(S1, h, p_size, p_ensure_zero)
                      : S1 \in resize_alloc(S, h, alloc_size) }
         ELSE UNION { IF ~r.ok THEN {[s |-> r.s, ret |-> ERR_OUT_OF_MEMORY]}
                      ELSE resize_construct(r.s, h, p_size, p_ensure_zero)
                      : r \in resize_realloc(S, h, alloc_size, rc) }
    ELSE resize_construct(S, h, p_size, p_ensure_zero)

\* resize, p_size < current_size: the elements past p_size are destroyed
\* first, then the block is reallocated, then the size is stored.
resize_shrink(S, h, p_size, rc, alloc_size, current_alloc_size) ==
    LET b  == S.ptr[h]
        S1 == IF is_trivially_destructible(S) THEN S
              ELSE DestroyRange(S, b, p_size, S.heap[b].size)
    IN IF S1.fault # "none" THEN Stopped(S1)
       ELSE IF alloc_size # current_alloc_size
       THEN { IF ~r.ok THEN [s |-> r.s, ret |-> ERR_OUT_OF_MEMORY]
              ELSE [s |-> SetSize(r.s, r.s.ptr[h], p_size), ret |-> OK]
              : r \in resize_realloc(S1, h, alloc_size, rc) }
       ELSE {[s |-> SetSize(S1, b, p_size), ret |-> OK]}

\* The clean-up without _ptr = nullptr.
resize_cleanup_dangling(S, h) == _unref(S, h, S.ptr[h])

\* resize, p_size == 0: wants to clean up.
resize_cleanup(S, h) == [_unref(S, h, S.ptr[h]) EXCEPT !.ptr[h] = Null]

\* resize, past the early returns: copy on write, the two allocation sizes,
\* then the growing or the shrinking branch.
resize_change(S, h, p_size, current_size, p_ensure_zero) ==
    UNION {
        IF c.s.fault # "none" THEN Stopped(c.s)
        ELSE LET current_alloc_size == _get_alloc_size(current_size)
                 chk == _get_alloc_size_checked(p_size)
             IN IF ~chk.ok THEN {[s |-> c.s, ret |-> ERR_OUT_OF_MEMORY]}
                ELSE IF p_size > current_size
                THEN resize_grow(c.s, h, p_size, current_size, c.rc, chk.out,
                                 current_alloc_size, p_ensure_zero)
                ELSE resize_shrink(c.s, h, p_size, c.rc, chk.out, current_alloc_size)
        : c \in _copy_on_write(S, h) }

\* resize without its p_size == 0 branch: a resize to 0 shrinks like any other.
resize_no_cleanup(S, h, p_size, p_ensure_zero) ==
    IF p_size < 0 THEN {[s |-> S, ret |-> ERR_INVALID_PARAMETER]}
    ELSE IF p_size = size(S, h) THEN {[s |-> S, ret |-> OK]}
    ELSE resize_change(S, h, p_size, size(S, h), p_ensure_zero)

\* resize with the test of p_size made after the copy-on-write step.
resize_late_check(S, h, p_size, p_ensure_zero) ==
    IF p_size < 0
    THEN { [s |-> c.s, ret |-> IF c.s.fault # "none" THEN NoReturn ELSE ERR_INVALID_PARAMETER]
           : c \in _copy_on_write(S, h) }
    ELSE IF p_size = size(S, h) THEN {[s |-> S, ret |-> OK]}
    ELSE IF p_size = 0 THEN {Returned(resize_cleanup(S, h), OK)}
    ELSE resize_change(S, h, p_size, size(S, h), p_ensure_zero)

\* resize<p_ensure_zero>(p_size): outcomes [s, ret].
resize(S, h, p_size, p_ensure_zero) ==
    IF p_size < 0 THEN {[s |-> S, ret |-> ERR_INVALID_PARAMETER]}
    ELSE IF p_size = size(S, h) THEN {[s |-> S, ret |-> OK]}
    ELSE IF p_size = 0 THEN {Returned(resize_cleanup(S, h), OK)}
    ELSE resize_change(S, h, p_size, size(S, h), p_ensure_zero)

\* clear(): resize(0), its result dropped.
clear(S, h) == {Returned(r.s, Void) : r \in resize(S, h, 0, FALSE)}

\* remove_at, the loop p[i] = p[i + 1] for i in [p_index, len - 1).
remove_shift(S, h, p_index, len) ==
    IF p_index < len - 1 /\ HasDead(S, S.ptr[h], p_index, len)
    THEN Fault(S, "dead_object")
    ELSE [S EXCEPT !.heap[S.ptr[h]].data =
            [i \in 1 .. Len(@) |-> IF i > p_index /\ i < len THEN @[i + 1] ELSE @[i]]]

\* remove_at(p_index): outcomes [s, ret]; the result of resize is dropped.
remove_at(S, h, p_index) ==
    IF BadIndex(p_index, size(S, h)) THEN {[s |-> S, ret |-> Void]}
    ELSE UNION {
        IF c.s.fault # "none" THEN Stopped(c.s)
        ELSE LET len == size(c.s, h)
             IN UNION { IF S1.fault # "none" THEN Stopped(S1)
                        ELSE {Returned(r.s, Void) : r \in resize(S1, h, len - 1, FALSE)}
                        : S1 \in {remove_shift(c.s, h, p_index, len)} }
        : c \in ptrw(S, h) }

\* insert, the loop set(i, get(i - 1)) for i from size() - 1 down to p_pos + 1:
\* the states it can end in.
RECURSIVE insert_shift(_, _, _, _)
insert_shift(S, h, i, p_pos) ==
    IF S.fault # "none" THEN {S}
    ELSE IF i > p_pos
    THEN UNION { insert_shift(o.s, h, i - 1, p_pos) : o \in set(S, h, i, get(S, h, i - 1)) }
    ELSE {S}

\* insert(p_pos, p_val): outcomes [s, ret]. The result of resize is dropped
\* and OK returned whatever it was.
insert(S, h, p_pos, p_val) ==
    IF BadIndex(p_pos, size(S, h) + 1) THEN {[s |-> S, ret |-> ERR_INVALID_PARAMETER]}
    ELSE UNION { UNION {
            { Returned(o.s, OK)
              : o \in IF S1.fault # "none" THEN Stopped(S1) ELSE set(S1, h, p_pos, p_val) }
            : S1 \in insert_shift(r.s, h, size(r.s, h) - 1, p_pos) }
        : r \in resize(S, h, size(S, h) + 1, FALSE) }

\* find, the loop from index i on, without its break: the last match wins.
RECURSIVE find_loop_no_break(_, _, _, _, _)
find_loop_no_break(S, h, p_val, i, ret) ==
    IF i < size(S, h)
    THEN IF Elems(S, h)[i + 1] = Dead THEN {}
         ELSE find_loop_no_break(S, h, p_val, i + 1,
                                 IF Elems(S, h)[i + 1] = p_val THEN i ELSE ret)
    ELSE {ret}

\* find, the loop `for (i = p_from; i < size(); i++)` from index i on, ret
\* being -1: the first i with get(i) == p_val. The result is a set: the value
\* returned, or nothing when a destroyed element is compared, which is
\* undefined.
RECURSIVE find_loop(_, _, _, _, _)
find_loop(S, h, p_val, i, ret) ==
    IF i < size(S, h)
    THEN IF Elems(S, h)[i + 1] = Dead THEN {}
         ELSE IF Elems(S, h)[i + 1] = p_val THEN {i}
         ELSE find_loop(S, h, p_val, i + 1, ret)
    ELSE {ret}

\* find(p_val, p_from): -1 at once for a negative p_from or an empty handle.
find(S, h, p_val, p_from) ==
    IF p_from < 0 \/ size(S, h) = 0 THEN {-1}
    ELSE find_loop(S, h, p_val, p_from, -1)

\* rfind's start with a negative p_from not taken relative to the end.
rfind_start_absolute(s, p_from) == IF p_from < 0 \/ p_from >= s THEN s - 1 ELSE p_from

\* rfind, the index the scan starts at for a handle of size s: a negative
\* p_from counts from the end, and what is then out of range becomes s - 1.
rfind_start(s, p_from) ==
    LET from == IF p_from < 0 THEN s + p_from ELSE p_from
    IN IF from < 0 \/ from >= s THEN s - 1 ELSE from

\* rfind, the loop `for (i = p_from; i >= 0; i--)` from index i down: the first
\* i with get(i) == p_val, or -1. The result is a set: the value returned, or
\* nothing when get(i) is out of range (CRASH_BAD_INDEX) or a destroyed
\* element is compared.
RECURSIVE rfind_loop(_, _, _, _)
rfind_loop(S, h, p_val, i) ==
    IF i >= 0
    THEN IF BadIndex(i, size(S, h)) THEN {}
         ELSE IF Elems(S, h)[i + 1] = Dead THEN {}
         ELSE IF Elems(S, h)[i + 1] = p_val THEN {i}
         ELSE rfind_loop(S, h, p_val, i - 1)
    ELSE {-1}

\* rfind(p_val, p_from).
rfind(S, h, p_val, p_from) == rfind_loop(S, h, p_val, rfind_start(size(S, h), p_from))

\* _ref(p_from): the handle's own block is unreferenced, then p_from's counter
\* conditionally incremented and its block adopted if that succeeded.
_ref(S, h, from) ==
    IF S.ptr[h] = S.ptr[from] THEN S
    ELSE LET S1 == [_unref(S, h, S.ptr[h]) EXCEPT !.ptr[h] = Null]
             b  == S.ptr[from]
         IN IF S1.fault # "none" \/ b = Null THEN S1
            ELSE LET S2 == conditional_increment(S1, b)
                 IN IF CouldReference(S2.heap[b].refc) THEN [S2 EXCEPT !.ptr[h] = b]
                    ELSE S2

\* ~CowData(): _unref(_ptr); the handle is gone.
destroy(S, h) == [_unref(S, h, S.ptr[h]) EXCEPT !.alive[h] = FALSE, !.ptr[h] = Null]

----------------------------------------------------------------------------
(* The single-threaded program: one action per operation on a handle.      *)
(* Addresses carry no meaning of their own, so every state is kept with    *)
(* its blocks renumbered in the order the handles reference them; a        *)
(* faulted program is kept as its fault alone.                             *)

Threads == {"T1", "T2"}

\* A thread's locals in _ref / ~CowData: the operation, this handle (dst), the
\* handle p_from (src), p_from._ptr as read (blk), and what decrement() (dec)
\* and conditional_increment() (inc) returned, -1 before the call.
NoLoc == [op |-> "none", dst |-> "", src |-> "", blk |-> Null, dec |-> -1, inc |-> -1]

Cur == [alive |-> alive, ptr |-> ptr, heap |-> heap, fault |-> fault,
        nomem |-> FALSE, calls |-> 0, trivial |-> trivialT]

\* The indices an operation on h is tried with: those in range, and one out
\* of range on either side.
Indices(h) == -1 .. size(Cur, h)

\* The sizes resize is tried with.
Sizes == -1 .. MaxLen

Referenced(S, b) == \E h \in Handles : S.ptr[h] = b

Key(S, b) ==
    IF Referenced(S, b)
    THEN CHOOSE i \in 1 .. Len(HandleSeq) :
            /\ S.ptr[HandleSeq[i]] = b
            /\ \A j \in 1 .. Len(HandleSeq) : S.ptr[HandleSeq[j]] = b => i <= j
    ELSE IF S.heap[b].live THEN Len(HandleSeq) + b
    ELSE Len(HandleSeq) + Cardinality(Blocks) + b

\* The one element of a singleton set.
The(X) == CHOOSE x \in X : TRUE

Renumber(S, newid) ==
    [S EXCEPT !.ptr = [h \in Handles |->
                          IF S.ptr[h] = Null THEN Null ELSE newid[S.ptr[h]]],
              !.heap = [n \in Blocks |-> S.heap[CHOOSE b \in Blocks : newid[b] = n]]]

NewIds(S) ==
    The({ [b \in Blocks |-> 1 + Cardinality({c \in Blocks : key[c] < key[b]})]
          : key \in {[b \in Blocks |-> Key(S, b)]} })

Normalize(S) == The({ The({ Renumber(T, newid) : newid \in {NewIds(T)} }) : T \in {S} })

Done(S) ==
    \E N \in {IF S.fault = "none" THEN Normalize(S)
              ELSE [S EXCEPT !.alive = [h \in Handles |-> FALSE],
                             !.ptr = [h \in Handles |-> Null],
                             !.heap = [b \in Blocks |-> FreeBlock]]} :
        /\ alive' = N.alive
        /\ ptr' = N.ptr
        /\ heap' = N.heap
        /\ fault' = N.fault
        /\ UNCHANGED <<trivialT, pc, loc>>

Init ==
    /\ alive = [h \in Handles |-> FALSE]
    /\ ptr = [h \in Handles |-> Null]
    /\ heap = [b \in Blocks |-> FreeBlock]
    /\ fault = "none"
    /\ trivialT \in BOOLEAN
    /\ pc = [t \in Threads |-> "idle"]
    /\ loc = [t \in Threads |-> NoLoc]

\* CowData()
Construct(h) ==
    /\ fault = "none" /\ ~alive[h]
    /\ Done([Cur EXCEPT !.alive[h] = TRUE, !.ptr[h] = Null])

\* CowData(CowData<T> &p_from)
copy_construct(S, h, from) == _ref([S EXCEPT !.alive[h] = TRUE, !.ptr[h] = Null], h, from)

CopyConstruct(h, from) ==
    /\ fault = "none" /\ ~alive[h] /\ alive[from]
    /\ Done(copy_construct(Cur, h, from))

\* operator=(const CowData<T> &p_from)
Assign(h, from) ==
    /\ fault = "none" /\ alive[h] /\ alive[from]
    /\ Done(_ref(Cur, h, from))

\* ~CowData()
Destroy(h) ==
    /\ fault = "none" /\ alive[h]
    /\ Done(destroy(Cur, h))

Set(h, i, v) ==
    /\ fault = "none" /\ alive[h]
    /\ \E o \in set(Cur, h, i, v) : Done(o.s)

GetM(h, i, v) ==
    /\ fault = "none" /\ alive[h]
    /\ \E o \in get_m(Cur, h, i, v) : Done(o.s)

\* ptrw(), and a write p[i] = v through the pointer when i is in range.
ptrw_write(S, h, i, v) ==
    { IF o.s.fault = "none" /\ ~BadIndex(i, size(o.s, h))
      THEN Returned(WriteElem(o.s, h, i, v), Void) ELSE o
      : o \in ptrw(S, h) }

Ptrw(h, i, v) ==
    /\ fault = "none" /\ alive[h]
    /\ \E o \in ptrw_write(Cur, h, i, v) : Done(o.s)

Resize(h, n, z) ==
    /\ fault = "none" /\ alive[h]
    /\ \E o \in resize(Cur, h, n, z) : Done(o.s)

Clear(h) ==
    /\ fault = "none" /\ alive[h]
    /\ \E o \in clear(Cur, h) : Done(o.s)

Insert(h, pos, v) ==
    /\ fault = "none" /\ alive[h] /\ size(Cur, h) < MaxLen
    /\ \E o \in insert(Cur, h, pos, v) : Done(o.s)

RemoveAt(h, i) ==
    /\ fault = "none" /\ alive[h]
    /\ \E o \in remove_at(Cur, h, i) : Done(o.s)

Next ==
    \/ \E h \in Handles : Construct(h)
    \/ \E h \in Handles, from \in Handles : CopyConstruct(h, from)
    \/ \E h \in Handles, from \in Handles : Assign(h, from)
    \/ \E h \in Handles : Destroy(h)
    \/ \E h \in Handles : \E i \in Indices(h), v \in Vals : Set(h, i, v)
    \/ \E h \in Handles : \E i \in Indices(h), v \in Vals : GetM(h, i, v)
    \/ \E h \in Handles : \E i \in Indices(h), v \in Vals : Ptrw(h, i, v)
    \/ \E h \in Handles, n \in Sizes, z \in BOOLEAN : Resize(h, n, z)
    \/ \E h \in Handles : Clear(h)
    \/ \E h \in Handles : \E pos \in -1 .. (size(Cur, h) + 1), v \in Vals : Insert(h, pos, v)
    \/ \E h \in Handles : \E i \in Indices(h) : RemoveAt(h, i)

Spec == Init /\ [][Next]_vars

----------------------------------------------------------------------------
(* Copy and destroy from several threads. Every thread owns its handles;   *)
(* the blocks and their counters are shared. A step of a thread is one     *)
(* access to a shared counter or block together with the code on the       *)
(* thread's own handle that follows it.                                    *)

ThreadHandles == {"a1", "a2", "b1", "b2"}

Owner(h) == IF h \in {"a1", "a2"} THEN "T1" ELSE "T2"

\* Blocks 1 and 2 hold one element each. Block 1 is shared by a handle of each
\* thread; block 2 is held by b2 alone or shared with a2.
InitThreads ==
    /\ alive = [h \in ThreadHandles |-> TRUE]
    /\ \E p \in {Null, 2} :
        /\ ptr = [h \in ThreadHandles |-> IF h = "a2" THEN p
                                          ELSE IF h = "b2" THEN 2 ELSE 1]
        /\ heap = [b \in Blocks |->
                    IF b \in {1, 2}
                    THEN [live |-> TRUE,
                          refc |-> IF b = 2 /\ p = Null THEN 1 ELSE 2,
                          size |-> 1, data |-> <<b - 1>>,
                          bytes |-> _get_alloc_size(1)]
                    ELSE FreeBlock]
    /\ fault = "none"
    /\ trivialT \in BOOLEAN
    /\ pc = [t \in Threads |-> "idle"]
    /\ loc = [t \in Threads |-> NoLoc]

\* Thread t's step ends in S at label with locals l; a fault stops the program.
Step(S, t, label, l) ==
    /\ alive' = S.alive
    /\ ptr' = S.ptr
    /\ heap' = S.heap
    /\ fault' = S.fault
    /\ pc' = IF S.fault = "none" THEN [pc EXCEPT ![t] = label] ELSE pc
    /\ loc' = IF S.fault = "none" THEN [loc EXCEPT ![t] = l] ELSE loc
    /\ UNCHANGED trivialT

\* operator=(p_from): _ref(p_from) up to its test `_ptr == p_from._ptr`.
RefBegin(t, d, f) ==
    /\ fault = "none" /\ pc[t] = "idle"
    /\ Owner(d) = t /\ alive[d] /\ alive[f] /\ d # f
    /\ Step(Cur, t, IF ptr[d] = ptr[f] THEN "idle" ELSE "unref",
            [NoLoc EXCEPT !.op = "ref", !.dst = d, !.src = f])

\* ~CowData(): enters _unref(_ptr).
DtorBegin(t, h) ==
    /\ fault = "none" /\ pc[t] = "idle"
    /\ Owner(h) = t /\ alive[h]
    /\ Step(Cur, t, "unref", [NoLoc EXCEPT !.op = "dtor", !.dst = h])

\* _copy_on_write with the old block unreferenced before its payload is copied.
cow_next_unref_first(label) ==
    CASE label = "cow_alloc" -> "unref"
      [] label = "unref" -> "cow_copy"
      [] label = "cow_copy" -> "cow_adopt"

\* _copy_on_write, the order of its steps once it clones: the allocation, the
\* copy of the payload, _unref(_ptr), `_ptr = _data`.
cow_next(label) ==
    CASE label = "cow_alloc" -> "cow_copy"
      [] label = "cow_copy" -> "unref"
      [] label = "unref" -> "cow_adopt"

\* Thread t returns from _unref: the destructor is over and the handle gone;
\* _ref goes on to `_ptr = nullptr`, _copy_on_write with what follows its
\* _unref(_ptr).
unref_return(S, t, l) ==
    IF l.op = "dtor"
    THEN Step([S EXCEPT !.alive[l.dst] = FALSE, !.ptr[l.dst] = Null], t, "idle", l)
    ELSE IF l.op = "cow" THEN Step(S, t, cow_next("unref"), l)
    ELSE Step(S, t, "clear", l)

\* _unref(p_data) up to the test of what decrement() returned.
UnrefStep(t) ==
    /\ fault = "none" /\ pc[t] = "unref"
    /\ LET b == ptr[loc[t].dst]
       IN IF b = Null THEN unref_return(Cur, t, loc[t])
          ELSE IF ~heap[b].live THEN Step(Fault(Cur, "use_after_free"), t, pc[t], loc[t])
          ELSE LET S1 == decrement(Cur, b)
                   l  == [loc[t] EXCEPT !.dec = S1.heap[b].refc]
               IN IF StillInUse(l.dec) THEN unref_return(S1, t, l)
                  ELSE Step(S1, t, "free", l)

\* _unref(p_data) after the counter reached 0: the elements of a
\* non-trivially-destructible T are destroyed and the block is freed.
FreeStep(t) ==
    /\ fault = "none" /\ pc[t] = "free"
    /\ LET b  == ptr[loc[t].dst]
           S2 == IF is_trivially_destructible(Cur) \/ ~heap[b].live THEN Cur
                 ELSE DestroyRange(Cur, b, 0, heap[b].size)
       IN IF S2.fault # "none" THEN Step(S2, t, pc[t], loc[t])
          ELSE unref_return(free_static(S2, b), t, loc[t])

\* _ref: `_ptr = nullptr; if (!p_from._ptr) return;`. Reading the _ptr of a
\* handle whose destructor has run is undefined.
ClearStep(t) ==
    /\ fault = "none" /\ pc[t] = "clear"
    /\ LET d  == loc[t].dst
           f  == loc[t].src
           S1 == [Cur EXCEPT !.ptr[d] = Null]
       IN IF ~alive[f] THEN Step(Fault(S1, "use_after_free"), t, pc[t], loc[t])
          ELSE IF ptr[f] = Null THEN Step(S1, t, "idle", loc[t])
          ELSE Step(S1, t, "cinc", [loc[t] EXCEPT !.blk = ptr[f]])

\* _ref: p_from._get_refcount()->conditional_increment().
CincStep(t) ==
    /\ fault = "none" /\ pc[t] = "cinc"
    /\ LET b == loc[t].blk
       IN IF ~heap[b].live THEN Step(Fault(Cur, "use_after_free"), t, pc[t], loc[t])
          ELSE LET S2 == conditional_increment(Cur, b)
               IN Step(S2, t, "adopt", [loc[t] EXCEPT !.inc = S2.heap[b].refc])

\* _ref: `if (... > 0) _ptr = p_from._ptr;`.
AdoptStep(t) ==
    /\ fault = "none" /\ pc[t] = "adopt"
    /\ Step(IF CouldReference(loc[t].inc)
            THEN [Cur EXCEPT !.ptr[loc[t].dst] = loc[t].blk] ELSE Cur,
            t, "idle", loc[t])

\* Every thread copies between and destroys the handles it owns.
NextThreads ==
    \/ \E t \in Threads : \E d \in ThreadHandles, f \in ThreadHandles :
            Owner(f) = t /\ RefBegin(t, d, f)
    \/ \E t \in Threads : \E h \in ThreadHandles : DtorBegin(t, h)
    \/ \E t \in Threads : UnrefStep(t)
    \/ \E t \in Threads : FreeStep(t)
    \/ \E t \in Threads : ClearStep(t)
    \/ \E t \in Threads : CincStep(t)
    \/ \E t \in Threads : AdoptStep(t)

SpecThreads == InitThreads /\ [][NextThreads]_vars

\* As NextThreads, but a thread also copies from a handle another thread owns
\* and may be destroying.
NextRace ==
    \/ \E t \in Threads : \E d \in ThreadHandles, f \in ThreadHandles : RefBegin(t, d, f)
    \/ \E t \in Threads : \E h \in ThreadHandles : DtorBegin(t, h)
    \/ \E t \in Threads : UnrefStep(t)
    \/ \E t \in Threads : FreeStep(t)
    \/ \E t \in Threads : ClearStep(t)
    \/ \E t \in Threads : CincStep(t)
    \/ \E t \in Threads : AdoptStep(t)

SpecRace == InitThreads /\ [][NextRace]_vars

----------------------------------------------------------------------------
(* The copy-on-write trigger from two threads, each through its own handle *)
(* to one shared block. A step is one access to the shared block, its      *)
(* counter or the allocator.                                               *)

\* a1 and b1 share block 1 (counter 2), which holds 1 to MaxLen elements.
InitCow ==
    /\ alive = [h \in ThreadHandles |-> h \in {"a1", "b1"}]
    /\ ptr = [h \in ThreadHandles |-> IF h \in {"a1", "b1"} THEN 1 ELSE Null]
    /\ \E n \in 1 .. MaxLen : \E d \in [1 .. n -> Vals] :
        heap = [b \in Blocks |->
                 IF b = 1
                 THEN [live |-> TRUE, refc |-> 2, size |-> n, data |-> d,
                       bytes |-> _get_alloc_size(n) + ALLOC_PAD]
                 ELSE FreeBlock]
    /\ fault = "none"
    /\ trivialT \in BOOLEAN
    /\ pc = [t \in Threads |-> "idle"]
    /\ loc = [t \in Threads |-> NoLoc]

\* ptrw() / _copy_on_write() is called on h, once by its thread.
CowBegin(t, h) ==
    /\ fault = "none" /\ pc[t] = "idle" /\ loc[t].op = "none"
    /\ Owner(h) = t /\ alive[h]
    /\ Step(Cur, t, "cow_read", [NoLoc EXCEPT !.op = "cow", !.dst = h])

\* _copy_on_write: `if (!_ptr) return 0; rc = refc->get(); if (rc > 1)`.
CowRead(t) ==
    /\ fault = "none" /\ pc[t] = "cow_read"
    /\ LET b == ptr[loc[t].dst]
       IN IF b = Null THEN Step(Cur, t, "idle", loc[t])
          ELSE IF ~heap[b].live THEN Step(Fault(Cur, "use_after_free"), t, pc[t], loc[t])
          ELSE IF heap[b].refc > 1 THEN Step(Cur, t, "cow_alloc", loc[t])
          ELSE Step(Cur, t, "idle", loc[t])

\* _copy_on_write: mem_new = alloc_static(...), used unchecked: the header is
\* written through a null result.
CowAlloc(t) ==
    /\ fault = "none" /\ pc[t] = "cow_alloc"
    /\ LET b == ptr[loc[t].dst]
       IN IF ~heap[b].live THEN Step(Fault(Cur, "use_after_free"), t, pc[t], loc[t])
          ELSE \E o \in alloc_static(Cur, (_get_alloc_size(heap[b].size) + ALLOC_PAD)
                                              % USizeMod) :
                 IF o.p = Null THEN Step(Fault(o.s, "null_write"), t, pc[t], loc[t])
                 ELSE Step(o.s, t, cow_next("cow_alloc"), [loc[t] EXCEPT !.blk = o.p])

\* _copy_on_write: the header of the clone is written and the payload copied
\* from the block _ptr points to.
CowCopy(t) ==
    /\ fault = "none" /\ pc[t] = "cow_copy"
    /\ LET b == ptr[loc[t].dst]
       IN IF ~heap[b].live THEN Step(Fault(Cur, "use_after_free"), t, pc[t], loc[t])
          ELSE Step(CloneInto(Cur, loc[t].blk, b), t, cow_next("cow_copy"), loc[t])

\* _copy_on_write: `_ptr = _data; rc = 1`.
CowAdopt(t) ==
    /\ fault = "none" /\ pc[t] = "cow_adopt"
    /\ Step([Cur EXCEPT !.ptr[loc[t].dst] = loc[t].blk], t, "idle", loc[t])

NextCow ==
    \/ \E t \in Threads : \E h \in ThreadHandles : CowBegin(t, h)
    \/ \E t \in Threads : CowRead(t)
    \/ \E t \in Threads : CowAlloc(t)
    \/ \E t \in Threads : CowCopy(t)
    \/ \E t \in Threads : UnrefStep(t)
    \/ \E t \in Threads : FreeStep(t)
    \/ \E t \in Threads : CowAdopt(t)

SpecCow == InitCow /\ [][NextCow]_vars

----------------------------------------------------------------------------
(* Properties. An operation's postcondition is stated of every outcome of  *)
(* the operation from every reachable state in which it returns: an        *)
(* outcome with a fault is a call that ran into undefined behaviour and    *)
(* did not return.                                                         *)

Live(h) == alive[h]

\* Two different live handles hold the same block.
Sharing(a, b) == a # b /\ alive[a] /\ alive[b] /\ ptr[a] # Null /\ ptr[a] = ptr[b]

\* The states the mutating operations through h can end in, over all inputs.
Mutations(h) ==
    UNION { {o.s : o \in set(Cur, h, i, v)} \cup {o.s : o \in get_m(Cur, h, i, v)}
            \cup {o.s : o \in ptrw_write(Cur, h, i, v)}
            \cup {o.s : o \in remove_at(Cur, h, i)}
            : i \in Indices(h), v \in Vals }
    \cup UNION { {o.s : o \in resize(Cur, h, n, z)} : n \in Sizes, z \in BOOLEAN }
    \cup {o.s : o \in clear(Cur, h)}
    \cup (IF size(Cur, h) < MaxLen
          THEN UNION { {o.s : o \in insert(Cur, h, pos, v)}
                       : pos \in -1 .. (size(Cur, h) + 1), v \in Vals }
          ELSE {})

\* C1: copy-then-mutate isolation. Whatever mutating operation (set, a write
\* through get_m or ptrw, resize, clear, insert, remove_at) is made through a
\* handle b, every other live handle a - one sharing b's block in particular -
\* reads the same size and the same elements afterwards as before.
C1_Isolation ==
    \A a \in Handles, b \in Handles :
        (a # b /\ alive[a] /\ alive[b]) =>
            \A s \in Mutations(b) :
                s.fault = "none" =>
                    /\ size(s, a) = size(Cur, a)
                    /\ Elems(s, a) = Elems(Cur, a)

\* C1 witness: A and B share a block, and a set through B changes what B
\* reads and leaves what A reads.
C1_Witness ==
    /\ Sharing("A", "B")
    /\ \E v \in Vals : \E o \in set(Cur, "B", 0, v) :
          /\ o.s.fault = "none"
          /\ Elems(o.s, "B") # Elems(Cur, "B")
          /\ Elems(o.s, "A") = Elems(Cur, "A")
          /\ o.s.ptr["A"] # o.s.ptr["B"]

\* The live handles that hold block b.
Holders(b) == {h \in Handles : alive[h] /\ ptr[h] = b}

\* C2: refcount accounting. No operation frees a block twice or touches a
\* freed one; at every operation boundary each allocated block is held by at
\* least one live handle and its counter is the number of live handles holding
\* it, and every block a live handle holds is allocated; so a block is freed
\* when, and only when, its last handle lets go, and none is outstanding once
\* every handle is destroyed. Destroying a handle frees its block exactly when
\* its counter was 1.
C2_RefcountAccounting ==
    /\ fault \notin {"bad_free", "use_after_free", "null_read"}
    /\ fault = "none" =>
        /\ \A b \in Blocks :
              heap[b].live => heap[b].refc = Cardinality(Holders(b)) /\ heap[b].refc >= 1
        /\ \A h \in Handles : (alive[h] /\ ptr[h] # Null) => heap[ptr[h]].live
        /\ \A h \in Handles : ~alive[h] => ptr[h] = Null
        /\ \A h \in Handles :
              (alive[h] /\ ptr[h] # Null) =>
                  LET s == destroy(Cur, h)
                  IN /\ s.fault \notin {"bad_free", "use_after_free", "null_read"}
                     /\ s.fault = "none" =>
                           (s.heap[ptr[h]].live <=> heap[ptr[h]].refc > 1)

\* C2 witness: the only block is held by one handle alone, and destroying
\* that handle leaves no block allocated.
C2_Witness ==
    /\ alive["A"] /\ ~alive["B"] /\ ptr["A"] # Null /\ heap[ptr["A"]].refc = 1
    /\ LET s == destroy(Cur, "A")
       IN s.fault = "none" /\ \A b \in Blocks : ~s.heap[b].live

\* A handle of the threaded program whose reference has been given up: its
\* thread has decremented the counter and not yet cleared _ptr.
Released(h) == \E t \in Threads : loc[t].dst = h /\ pc[t] \in {"free", "clear"}

\* The handles that hold a counted reference to block b.
ThreadHolders(b) == {h \in ThreadHandles : alive[h] /\ ptr[h] = b /\ ~Released(h)}

\* The threads that have incremented b's counter and not yet adopted b.
Adopting(b) == {t \in Threads : pc[t] = "adopt" /\ loc[t].blk = b /\ loc[t].inc > 0}

\* C3: when threads that own distinct handles copy and destroy them
\* concurrently, nothing undefined happens (no counter or block is used after
\* its release, no block is freed twice), no handle references a freed block,
\* a live block's counter is the number of handles referencing it plus the
\* copies in flight, so never below the number of handles, and a block whose
\* last reference is released is with the thread that frees it.
C3_ConcurrentCopyDestroy ==
    /\ fault = "none"
    /\ \A b \in Blocks :
        /\ ~heap[b].live => ThreadHolders(b) = {}
        /\ heap[b].live =>
            /\ heap[b].refc >= Cardinality(ThreadHolders(b))
            /\ heap[b].refc = Cardinality(ThreadHolders(b)) + Cardinality(Adopting(b))
            /\ heap[b].refc = 0 =>
                \E t \in Threads : pc[t] = "free" /\ ptr[loc[t].dst] = b

\* One thread has incremented a block's counter for a copy while the other
\* has decremented the same counter for a handle it is overwriting.
C3_Witness ==
    \E t \in Threads, u \in Threads :
        /\ t # u
        /\ pc[t] = "adopt" /\ loc[t].inc > 0
        /\ pc[u] = "clear" /\ loc[u].dec > 0
        /\ ptr[loc[u].dst] = loc[t].blk

\* C4: a conditional increment that finds the counter of a block at 0 (the
\* block is being destroyed) leaves it 0 and fails, and the copy then ends
\* with its destination empty.
C4_FailedCopyIsEmpty ==
    [][\A t \in Threads :
         /\ (pc[t] = "cinc" /\ pc'[t] = "adopt"
             /\ heap[loc[t].blk].live /\ heap[loc[t].blk].refc = 0) =>
                /\ heap'[loc[t].blk].refc = 0
                /\ loc'[t].inc = 0
         /\ (pc[t] = "adopt" /\ pc'[t] = "idle" /\ loc[t].inc = 0) =>
                ptr'[loc[t].dst] = Null]_vars

\* A copy has ended after its conditional increment failed.
C4_Witness ==
    \E t \in Threads :
        /\ fault = "none"
        /\ pc[t] = "idle" /\ loc[t].op = "ref" /\ loc[t].inc = 0
        /\ ptr[loc[t].dst] = Null

\* C5: at every operation boundary a live handle is null exactly when its
\* size() is 0, a non-null handle's block is allocated with a counter of at
\* least 1, and every allocated block is held by a non-null handle (a null
\* handle owns none).
C5_HandleInvariant ==
    fault = "none" =>
        /\ \A h \in Handles :
              alive[h] =>
                  /\ is_empty(Cur, h) <=> size(Cur, h) = 0
                  /\ ~is_empty(Cur, h) => heap[ptr[h]].live /\ heap[ptr[h]].refc >= 1
        /\ \A b \in Blocks : heap[b].live => Holders(b) # {}

\* C5 witness: one live handle is null, the other holds elements.
C5_Witness ==
    /\ fault = "none" /\ alive["A"] /\ alive["B"]
    /\ is_empty(Cur, "A") /\ size(Cur, "A") = 0
    /\ ~is_empty(Cur, "B") /\ size(Cur, "B") = MaxLen

\* C6: resize(0) and clear(), from any state of a live handle (null, sole
\* holder of its block, or sharing it), return - resize(0) with OK - and leave
\* the handle with is_empty() true and size() 0.
C6_ResizeZero ==
    \A h \in Handles :
        alive[h] =>
            /\ \A z \in BOOLEAN : \A o \in resize(Cur, h, 0, z) :
                  o.s.fault = "none" =>
                      o.ret = OK /\ is_empty(o.s, h) /\ size(o.s, h) = 0
            /\ \A o \in clear(Cur, h) :
                  o.s.fault = "none" =>
                      o.ret = Void /\ is_empty(o.s, h) /\ size(o.s, h) = 0

\* C6 witness: B shares a non-empty block with A, and resize(0) through B
\* returns OK and leaves B empty (and A as it was).
C6_Witness ==
    /\ Sharing("A", "B")
    /\ \E o \in resize(Cur, "B", 0, FALSE) :
          /\ o.ret = OK /\ is_empty(o.s, "B")
          /\ Elems(o.s, "A") = Elems(Cur, "A") /\ size(Cur, "A") > 0

\* The state s is S after handle h made its block exclusive: with a counter
\* k > 1 before, h holds a block that was not allocated before, with counter 1
\* and the size and the elements of the old one (element at index w, if any,
\* aside), and the old block's counter is k - 1; with a counter of at most 1,
\* h holds what it held, nothing was allocated and no counter changed.
Exclusive(S, s, h, w) ==
    LET b == S.ptr[h]
        k == RefCount(S, h)
        n == s.ptr[h]
    IN IF k > 1
       THEN /\ n # Null /\ n # b /\ ~S.heap[n].live /\ s.heap[n].live
            /\ s.heap[n].refc = 1
            /\ s.heap[n].size = S.heap[b].size
            /\ \A i \in 1 .. S.heap[b].size :
                  i # w + 1 => s.heap[n].data[i] = S.heap[b].data[i]
            /\ s.heap[b].live /\ s.heap[b].refc = k - 1
            /\ s.heap[b].data = S.heap[b].data
       ELSE /\ n = b
            /\ \A c \in Blocks :
                  /\ s.heap[c].live = S.heap[c].live
                  /\ s.heap[c].refc = S.heap[c].refc
                  /\ s.heap[c].bytes = S.heap[c].bytes

\* C7: mutable access is exclusive. _copy_on_write on a handle whose block has
\* a counter k > 1 returns 1 and leaves the handle on a fresh block with counter
\* 1, the same size and elements, the old block's counter k - 1; with a counter
\* of at most 1 (a null handle's is 0) it changes nothing and returns the
\* counter. ptrw(), get_m(i) and an in-range set(i, v) end the same way, the
\* written element aside.
C7_ExclusiveAccess ==
    \A h \in Handles :
        alive[h] =>
            /\ \A c \in _copy_on_write(Cur, h) :
                  c.s.fault = "none" =>
                      /\ Exclusive(Cur, c.s, h, -1)
                      /\ c.rc = IF RefCount(Cur, h) > 1 THEN 1 ELSE RefCount(Cur, h)
                      /\ RefCount(Cur, h) <= 1 => c.s = Cur
            /\ \A o \in ptrw(Cur, h) : o.s.fault = "none" => Exclusive(Cur, o.s, h, -1)
            /\ \A i \in 0 .. (size(Cur, h) - 1), v \in Vals :
                  /\ \A o \in get_m(Cur, h, i, v) :
                        o.s.fault = "none" =>
                            Exclusive(Cur, o.s, h, i) /\ get(o.s, h, i) = v
                  /\ \A o \in set(Cur, h, i, v) :
                        o.s.fault = "none" =>
                            Exclusive(Cur, o.s, h, i) /\ get(o.s, h, i) = v

\* C7 witness: B shares A's block (counter 2); _copy_on_write through B
\* returns 1 and leaves the two handles on two blocks, each with counter 1.
C7_Witness ==
    /\ Sharing("A", "B") /\ RefCount(Cur, "B") = 2 /\ size(Cur, "B") = MaxLen
    /\ \E c \in _copy_on_write(Cur, "B") :
          /\ c.s.fault = "none" /\ c.rc = 1
          /\ c.s.ptr["B"] # c.s.ptr["A"]
          /\ RefCount(c.s, "A") = 1 /\ RefCount(c.s, "B") = 1
          /\ Elems(c.s, "B") = Elems(Cur, "A")

\* The smaller of two numbers.
Min(x, y) == IF x < y THEN x ELSE y

\* C8: a resize(n) that returns OK leaves size() = n and every element below
\* both the old and the new size as it was, whether or not the two sizes lie
\* in the same power-of-two capacity bucket.
C8_ResizeKeepsContent ==
    \A h \in Handles :
        alive[h] =>
            \A n \in 0 .. MaxLen, z \in BOOLEAN : \A o \in resize(Cur, h, n, z) :
                o.ret = OK =>
                    /\ o.s.fault = "none"
                    /\ size(o.s, h) = n
                    /\ Len(Elems(o.s, h)) = n
                    /\ \A i \in 1 .. Min(size(Cur, h), n) :
                          Elems(o.s, h)[i] = Elems(Cur, h)[i]

\* C8 witness: a handle of size 2 holding a non-zero element grows to 3 inside
\* its capacity bucket and shrinks to 1 across a bucket boundary, each time
\* with OK and its leading elements kept.
C8_Witness ==
    /\ alive["A"] /\ size(Cur, "A") = 2 /\ get(Cur, "A", 0) = 1
    /\ _get_alloc_size(2) = _get_alloc_size(3) /\ _get_alloc_size(2) # _get_alloc_size(1)
    /\ \E o \in resize(Cur, "A", 3, FALSE) :
          o.ret = OK /\ size(o.s, "A") = 3 /\ SubSeq(Elems(o.s, "A"), 1, 2) = Elems(Cur, "A")
    /\ \E o \in resize(Cur, "A", 1, FALSE) :
          o.ret = OK /\ size(o.s, "A") = 1 /\ Elems(o.s, "A") = SubSeq(Elems(Cur, "A"), 1, 1)

\* C9: resize fails with ERR_OUT_OF_MEMORY whenever the allocator returns null
\* to it - for the first allocation, for a reallocation, for the clone of the
\* copy-on-write step - and never writes through the null result. (The code
\* tests the first allocation's result only after ptr += 2, and the clone's
\* not at all.)
C9_ResizeReportsNoMemory ==
    \A h \in Handles :
        alive[h] =>
            \A n \in 0 .. MaxLen, z \in BOOLEAN : \A o \in resize(Cur, h, n, z) :
                o.s.nomem => o.ret = ERR_OUT_OF_MEMORY /\ o.s.fault = "none"

\* C10: when the resize inside insert(pos, v) fails for want of memory, insert
\* returns ERR_OUT_OF_MEMORY and leaves the handle's size and elements as they
\* were. (The code drops the result of resize, shifts and writes all the same
\* and returns OK.)
C10_InsertReportsNoMemory ==
    \A h \in Handles :
        (alive[h] /\ size(Cur, h) < MaxLen) =>
            \A pos \in 0 .. size(Cur, h), v \in Vals : \A o \in insert(Cur, h, pos, v) :
                (o.s.nomem /\ o.s.fault = "none") =>
                    /\ o.ret = ERR_OUT_OF_MEMORY
                    /\ Elems(o.s, h) = Elems(Cur, h)

\* The p_size and p_pos arguments resize and insert reject for handle h.
BadSizes == {-2, -1}
BadPositions(h) == {-2, -1, size(Cur, h) + 1, size(Cur, h) + 2}

\* C11: resize(n) with n < 0 and insert(pos, v) with pos outside [0, size()]
\* return ERR_INVALID_PARAMETER and change nothing: every handle keeps its
\* block, every block its size, elements and counter, and no block is
\* allocated, also when the block is shared.
C11_InvalidArgumentsRejected ==
    \A h \in Handles :
        alive[h] =>
            /\ \A n \in BadSizes, z \in BOOLEAN : \A o \in resize(Cur, h, n, z) :
                  o.ret = ERR_INVALID_PARAMETER /\ o.s = Cur
            /\ \A pos \in BadPositions(h), v \in Vals : \A o \in insert(Cur, h, pos, v) :
                  o.ret = ERR_INVALID_PARAMETER /\ o.s = Cur

\* C11 witness: B shares a non-empty block with A (counter 2); resize(-1) and
\* insert(size() + 1, v) through B return ERR_INVALID_PARAMETER and B still
\* shares the block.
C11_Witness ==
    /\ Sharing("A", "B") /\ RefCount(Cur, "B") = 2 /\ size(Cur, "B") > 0
    /\ \E o \in resize(Cur, "B", -1, FALSE) :
          o.ret = ERR_INVALID_PARAMETER /\ o.s.ptr["B"] = ptr["A"] /\ RefCount(o.s, "B") = 2
    /\ \E o \in insert(Cur, "B", size(Cur, "B") + 1, 1) :
          o.ret = ERR_INVALID_PARAMETER /\ o.s.ptr["B"] = ptr["A"] /\ RefCount(o.s, "B") = 2

\* The least power of two that is at least x, computed without wrapping.
RECURSIVE CeilPow2From(_, _)
CeilPow2From(p, x) == IF p >= x THEN p ELSE CeilPow2From(2 * p, x)

\* The capacity of n elements does not fit USize: n * sizeof(T), rounded up
\* to a power of two, plus the header pad, is 2^w or more.
Overflows(n) == CeilPow2From(1, n * ElemSize) + ALLOC_PAD >= USizeMod

\* Lengths in [1, INT_MAX] whose capacity overflows: in the rounding, in the
\* multiplication, and INT_MAX itself.
HugeSizes == {USizeMod \div (2 * ElemSize) + 1, USizeMod \div ElemSize + 1, USizeMod \div 2 - 1}

\* C12: a resize(n) whose capacity arithmetic overflows the unsigned size type
\* fails with ERR_OUT_OF_MEMORY: also when the allocator has memory, it never
\* goes on with a wrapped size, to return OK or to write past the block it
\* got. (Without IS_32_BIT the code multiplies and rounds unchecked and only
\* treats a result of 0 as a failure.)
C12_OverflowCheckedCapacity ==
    \A h \in Handles :
        alive[h] =>
            \A n \in HugeSizes :
                Overflows(n) =>
                    \A o \in resize(Cur, h, n, TRUE) :
                        (~o.s.nomem /\ o.s.fault \in {"none", "heap_overflow"}) =>
                            o.ret = ERR_OUT_OF_MEMORY

\* The sequence s with v inserted before index pos (counted from 0).
Inserted(s, pos, v) == SubSeq(s, 1, pos) \o <<v>> \o SubSeq(s, pos + 1, Len(s))

\* C13: when insert(pos, v) with pos in [0, size()] returns OK, the handle
\* holds its old elements with v inserted at pos: the size is one more,
\* get(pos) is v and the old elements keep their order. (The code returns OK
\* also when its resize failed, see C10.)
C13_InsertIsPositional ==
    \A h \in Handles :
        (alive[h] /\ size(Cur, h) < MaxLen) =>
            \A pos \in 0 .. size(Cur, h), v \in Vals : \A o \in insert(Cur, h, pos, v) :
                o.ret = OK =>
                    /\ size(o.s, h) = size(Cur, h) + 1
                    /\ get(o.s, h, pos) = v
                    /\ Elems(o.s, h) = Inserted(Elems(Cur, h), pos, v)

\* The sequence s without its element at index pos (counted from 0).
Removed(s, pos) == SubSeq(s, 1, pos) \o SubSeq(s, pos + 2, Len(s))

\* C14: after remove_at(pos) with pos in [0, size()) the handle holds its old
\* elements without the one at pos, in their old order: the size is one less,
\* and the handle is empty when its last element went. (The code drops the
\* result of the resize that ends remove_at, as insert does.)
C14_RemoveAtRemovesOne ==
    \A h \in Handles :
        alive[h] =>
            \A pos \in 0 .. (size(Cur, h) - 1) : \A o \in remove_at(Cur, h, pos) :
                o.s.fault = "none" =>
                    /\ size(o.s, h) = size(Cur, h) - 1
                    /\ Elems(o.s, h) = Removed(Elems(Cur, h), pos)
                    /\ size(Cur, h) = 1 => is_empty(o.s, h)

\* The p_from arguments find and rfind are tried with.
Froms == -(MaxLen + 1) .. (MaxLen + 1)

\* The least and the greatest element of a non-empty set of numbers.
Least(M) == CHOOSE i \in M : \A j \in M : i <= j
Greatest(M) == CHOOSE i \in M : \A j \in M : i >= j

\* The naive scan: the lowest index i >= from with s[i] = v, or -1.
FindRef(s, v, from) ==
    LET M == {i \in 0 .. (Len(s) - 1) : i >= from /\ s[i + 1] = v}
    IN IF M = {} THEN -1 ELSE Least(M)

\* C15 as stated: for every from, negative ones included, find(v, from) is the
\* lowest index i >= from whose element equals v, or -1 if there is none.
C15_FindLowestFromAny ==
    \A h \in Handles :
        alive[h] =>
            \A v \in Vals, from \in Froms :
                \A r \in find(Cur, h, v, from) : r = FindRef(Elems(Cur, h), v, from)

\* C15, amended: for from >= 0 (zero, positive, beyond the end) and every
\* content, the empty handle included, find(v, from) is the lowest index
\* i >= from whose element equals v, or -1 if there is none; for from < 0 it
\* is -1 whatever the content.
C15_FindLowestFrom ==
    \A h \in Handles :
        alive[h] =>
            \A v \in Vals, from \in Froms :
                /\ \A r \in find(Cur, h, v, from) :
                      r = IF from < 0 THEN -1 ELSE FindRef(Elems(Cur, h), v, from)
                /\ (\A i \in 1 .. size(Cur, h) : Elems(Cur, h)[i] # Dead) =>
                      find(Cur, h, v, from) # {}

\* C15 witness: a handle holds v at two indices; find from 0 gives the lower
\* one, from one past it the higher one, from the end on -1, and from -1,
\* where the naive scan finds the lower one, -1.
C15_Witness ==
    /\ alive["A"] /\ size(Cur, "A") = MaxLen
    /\ \E v \in Vals :
        /\ get(Cur, "A", 0) # v /\ get(Cur, "A", 1) = v /\ get(Cur, "A", 2) = v
        /\ find(Cur, "A", v, 0) = {1}
        /\ find(Cur, "A", v, 2) = {2}
        /\ find(Cur, "A", v, MaxLen) = {-1}
        /\ find(Cur, "A", v, -1) = {-1}
        /\ FindRef(Elems(Cur, "A"), v, -1) = 1

\* Every element of the handle is a live object.
AllLive(h) == \A i \in 1 .. size(Cur, h) : Elems(Cur, h)[i] # Dead

\* The index the claim has rfind start at, for size n.
RfindStart(n, from) ==
    IF 0 <= from /\ from < n THEN from
    ELSE IF from < 0 /\ n + from >= 0 THEN n + from
    ELSE n - 1

\* The naive scan: the highest index i <= start with s[i] = v, or -1.
RfindRef(s, v, start) ==
    LET M == {i \in 0 .. (Len(s) - 1) : i <= start /\ s[i + 1] = v}
    IN IF M = {} THEN -1 ELSE Greatest(M)

\* C16: rfind(v, from) returns the highest index i <= start whose element
\* equals v, or -1 if there is none, start being from when 0 <= from < size,
\* size + from when from < 0 and size + from >= 0, and size - 1 otherwise; on
\* an empty handle it returns -1 and no get(i) is out of range.
C16_RfindHighestUpTo ==
    \A h \in Handles :
        alive[h] =>
            \A v \in Vals, from \in Froms :
                /\ \A r \in rfind(Cur, h, v, from) :
                      r = RfindRef(Elems(Cur, h), v, RfindStart(size(Cur, h), from))
                /\ AllLive(h) => rfind(Cur, h, v, from) # {}
                /\ size(Cur, h) = 0 => rfind(Cur, h, v, from) = {-1}

\* C16 witness: a handle holds v at its first two indices and not at its last;
\* rfind from -1 and from beyond the end gives the higher one, from -MaxLen
\* and from 0 the lower one, and for a value it does not hold -1; an empty
\* handle gives -1.
C16_Witness ==
    /\ alive["A"] /\ size(Cur, "A") = MaxLen
    /\ alive["B"] /\ size(Cur, "B") = 0
    /\ \E v \in Vals :
        /\ get(Cur, "A", 0) = v /\ get(Cur, "A", 1) = v
        /\ \A i \in 2 .. (MaxLen - 1) : get(Cur, "A", i) \in Vals \ {v}
        /\ rfind(Cur, "A", v, -1) = {1}
        /\ rfind(Cur, "A", v, MaxLen + 1) = {1}
        /\ rfind(Cur, "A", v, -MaxLen) = {0}
        /\ rfind(Cur, "A", v, 0) = {0}
        /\ rfind(Cur, "B", v, -1) = {-1}

\* C17: whenever resize returns ERR_OUT_OF_MEMORY - growing or shrinking, T
\* trivial or not - the handle's size and elements are those before the call
\* and every element below the size is still a live object. (The shrinking
\* branch destroys the elements past p_size before the reallocation that can
\* fail.)
C17_FailedResizeKeepsState ==
    \A h \in Handles :
        (alive[h] /\ AllLive(h)) =>
            \A n \in 0 .. MaxLen, z \in BOOLEAN : \A o \in resize(Cur, h, n, z) :
                o.ret = ERR_OUT_OF_MEMORY =>
                    /\ size(o.s, h) = size(Cur, h)
                    /\ Elems(o.s, h) = Elems(Cur, h)
                    /\ \A i \in 1 .. size(o.s, h) : Elems(o.s, h)[i] # Dead

\* Every live block is as large as its stored length asks for.
CapacityMatchesLength ==
    \A b \in Blocks :
        heap[b].live => heap[b].bytes = _get_alloc_size(heap[b].size) + ALLOC_PAD

\* Lengths a and b have the same power-of-two capacity.
SameBucket(a, b) == next_po2(a * ElemSize) = next_po2(b * ElemSize)

BadIndices(h) == {-2, -1, size(Cur, h), size(Cur, h) + 1}

\* C19: set(i, v) and remove_at(i) with i < 0 or i >= size() return and change
\* nothing: every handle keeps its block, every block its size, elements and
\* counter, nothing is allocated (no copy-on-write clone, also of a shared
\* block) and so no slot outside [0, size()) is written.
C19_OutOfRangeWritesIgnored ==
    \A h \in Handles :
        alive[h] =>
            \A i \in BadIndices(h) :
                /\ \A v \in Vals : \A o \in set(Cur, h, i, v) : o.ret = Void /\ o.s = Cur
                /\ \A o \in remove_at(Cur, h, i) : o.ret = Void /\ o.s = Cur

\* C19 witness: B shares a non-empty block with A (counter 2); set and
\* remove_at through B at index size() return and B still shares the block,
\* its elements as they were.
C19_Witness ==
    /\ Sharing("A", "B") /\ RefCount(Cur, "B") = 2 /\ size(Cur, "B") > 0
    /\ \E o \in set(Cur, "B", size(Cur, "B"), 1) :
          /\ o.ret = Void /\ o.s.ptr["B"] = ptr["A"] /\ RefCount(o.s, "B") = 2
          /\ Elems(o.s, "B") = Elems(Cur, "B")
    /\ \E o \in remove_at(Cur, "B", -1) :
          /\ o.ret = Void /\ o.s.ptr["B"] = ptr["A"] /\ RefCount(o.s, "B") = 2
          /\ Elems(o.s, "B") = Elems(Cur, "B")

\* Thread t is through its call of _copy_on_write.
CowDone(t) == pc[t] = "idle" /\ loc[t].op = "cow"

\* The sequence handle h stands for: the elements of its block, and of the
\* clone once its thread has given up the old block and not yet adopted the
\* clone.
CowView(h) ==
    LET t == Owner(h)
    IN IF pc[t] = "cow_adopt"
       THEN [i \in 1 .. heap[loc[t].blk].size |-> heap[loc[t].blk].data[i]]
       ELSE Elems(Cur, h)

\* No block is read, unreferenced or freed after it was freed; a thread that
\* is through holds a live block with counter 1; and when both are through
\* they hold different blocks, the original block 1 is freed or held by one
\* of them, and every live block is held by a handle.
CowSafe ==
    /\ fault \in {"none", "null_write"}
    /\ fault = "none" =>
        /\ \A t \in Threads :
              CowDone(t) =>
                  /\ ptr[loc[t].dst] # Null
                  /\ heap[ptr[loc[t].dst]].live
                  /\ heap[ptr[loc[t].dst]].refc = 1
        /\ (\A t \in Threads : CowDone(t)) =>
              /\ ptr["a1"] # ptr["b1"]
              /\ ~heap[1].live \/ Cardinality({h \in {"a1", "b1"} : ptr[h] = 1}) = 1
              /\ \A b \in Blocks :
                    heap[b].live => \E h \in ThreadHandles : alive[h] /\ ptr[h] = b

\* C20: two threads run _copy_on_write concurrently, each through its own
\* handle to one block with counter 2. In every interleaving of their steps
\* the payload is never read from a freed block and no block is freed twice,
\* each handle stands for the original elements throughout, each thread is
\* left with a handle whose counter is 1, and in the end the original block
\* is freed (once) or held by exactly one of the two handles, no block being
\* left without a handle.
C20_ConcurrentCopyOnWrite ==
    [][/\ CowSafe'
       /\ \A h \in {"a1", "b1"} : CowView(h)' = CowView(h)]_vars

\* C20 witness: both threads read the counter 2, both cloned, and the second
\* to unreference the original block freed it: each handle has a block of its
\* own with counter 1 and the same elements.
C20_Witness ==
    /\ fault = "none"
    /\ \A t \in Threads : CowDone(t) /\ loc[t].dec \in {0, 1}
    /\ ~heap[1].live
    /\ ptr["a1"] # ptr["b1"]
    /\ RefCount(Cur, "a1") = 1 /\ RefCount(Cur, "b1") = 1
    /\ Elems(Cur, "a1") = Elems(Cur, "b1") /\ size(Cur, "a1") = MaxLen

====
